---------------------------- MODULE Spec2Model ----------------------------
(***************************************************************************)
(* Intent Graph Dispatch Kernel (scripts/cli.py) and Graph Ingestor        *)
(* (scripts/ingest_state.py).                                              *)
(*                                                                         *)
(* Strings are tuples of one-character strings, so that lower(), slicing   *)
(* and the substring test are computed.  A file path is the tuple of its   *)
(* components ("out/a.txt" is <<"out", "a.txt">>).                         *)
(*                                                                         *)
(* Three programs are specified over one set of variables:                 *)
(*   SpecKernel  one run of cli.py: load_manifest, traverse, run_op ...    *)
(*   SpecIngest  runs of ingest_state.py, one after the other              *)
(*   SpecRace    two runs of ingest_state.py, interleaved                  *)
(***************************************************************************)
EXTENDS Integers, Sequences, FiniteSets, TLC

VARIABLES
    manifestFile,  \* hyper_graph.yaml on disk: [st, text]
    fs,            \* the rest of the filesystem: [dirs, files]
    fs0,           \* the filesystem when the kernel started (history)
    signal,        \* cli.py: the intent given on the command line
    manifest,      \* cli.py: HyperKernel.manifest
    kpc,           \* cli.py: where the kernel is
    matched,       \* cli.py: the <<node, edge>> indices traverse selected
    ran,           \* cli.py: the ops run_op was called with, in order
    fellBack,      \* cli.py: router_fallback was called
    traceFile,     \* trace/receipts.jsonl: [st, recs]
    scriptsDir,    \* glob("scripts/*.py"), basenames in glob order
    pc,            \* ingest_state.py: where each run is
    graph,         \* ingest_state.py: each run's `graph`
    seed,          \* each run's string-hash key (PYTHONHASHSEED)
    writeOrder,    \* runs in the order their save_manifest wrote (history)
    overlap        \* a run opened the manifest for writing while another
                   \* had it open for writing (history)

vars == <<manifestFile, fs, fs0, signal, manifest, kpc, matched, ran, fellBack,
          traceFile, scriptsDir, pc, graph, seed, writeOrder, overlap>>

kernelVars == <<fs, fs0, signal, manifest, kpc, matched, ran, fellBack>>
ingestVars == <<traceFile, scriptsDir, pc, graph, seed, writeOrder, overlap>>

---------------------------------------------------------------------------
(* Bounds *)

MaxNodes == 2
MaxEdges == 2
MaxOps == 2
MaxLog == 3      \* records in trace/receipts.jsonl
MaxRuns == 2     \* runs of ingest_state.py, one after the other
NumSeeds == 2    \* string-hash keys a process can start with

---------------------------------------------------------------------------
(* Strings *)

ToLower == ("A" :> "a") @@ ("B" :> "b") @@ ("C" :> "c")

LowerChar(c) == IF c \in DOMAIN ToLower THEN ToLower[c] ELSE c

\* str.lower()
Lower(s) == [i \in 1..Len(s) |-> LowerChar(s[i])]

\* `x in s` for strings: scan the start positions left to right
RECURSIVE FindFrom(_, _, _)
FindFrom(x, s, i) ==
    IF i + Len(x) > Len(s) THEN FALSE
    ELSE IF SubSeq(s, i + 1, i + Len(x)) = x THEN TRUE
    ELSE FindFrom(x, s, i + 1)

StrIn(x, s) == FindFrom(x, s, 0)

\* s[:n]
Take(s, n) == SubSeq(s, 1, IF Len(s) < n THEN Len(s) ELSE n)

SeqsUpTo(S, n) == UNION {[1..k -> S] : k \in 0..n}

IsPrefix(a, b) == Len(a) <= Len(b) /\ SubSeq(b, 1, Len(a)) = a

---------------------------------------------------------------------------
(* The manifest: YAML values and the file *)

\* A loaded YAML value.  kind "graph" is a mapping whose "nodes" is a list;
\* the other kinds are what a manifest file can also parse to.
PyGraph(nodes) == [kind |-> "graph", nodes |-> nodes]
EmptyGraph == PyGraph(<<>>)
PyNone == [kind |-> "none", nodes |-> <<>>]         \* empty document
PyNoKey == [kind |-> "nokey", nodes |-> <<>>]       \* mapping without "nodes"
PyIntNodes == [kind |-> "intnodes", nodes |-> <<>>] \* nodes: 5
PyStrNodes == [kind |-> "strnodes", nodes |-> <<>>] \* nodes: abc

Node(id, label, edges) == [id |-> id, label |-> label, edges |-> edges]
Edge(sig, ops) == [signal |-> sig, ops |-> ops]

WriteOp(path, content) ==
    [op |-> "write", path |-> path, content |-> content, cmd |-> "", args |-> <<>>]
ExecOp(cmd, args) ==
    [op |-> "exec", path |-> <<>>, content |-> "", cmd |-> cmd, args |-> args]

\* The file's text is a tuple of blocks in file order: yaml.dump writes a
\* graph as the line "nodes:" followed by one block per node ("- id: ..."),
\* and an empty graph as the line "nodes: []".
FileAbsent == [st |-> "absent", text |-> <<>>]
FileUnreadable == [st |-> "unreadable", text |-> <<>>]
FileOf(text) == [st |-> "file", text |-> text]

Blk(t, node) == [t |-> t, node |-> node]
NoNode == Node(0, <<>>, <<>>)
NodeBlk(n) == Blk("node", n)

\* yaml.dump(data, f, sort_keys=False)
YamlDump(v) ==
    CASE v.kind = "graph" /\ v.nodes = <<>> -> <<Blk("nodes: []", NoNode)>>
      [] v.kind = "graph" ->
            <<Blk("nodes:", NoNode)>> \o [i \in 1..Len(v.nodes) |-> NodeBlk(v.nodes[i])]
      [] v.kind = "none" -> <<Blk("null", NoNode)>>
      [] v.kind = "nokey" -> <<Blk("other: 1", NoNode)>>
      [] v.kind = "intnodes" -> <<Blk("nodes: 5", NoNode)>>
      [] OTHER -> <<Blk("nodes: abc", NoNode)>>

Garbage == <<Blk("{{", NoNode)>>

\* yaml.safe_load(f): [ok, v]; ok = FALSE is a raised yaml.YAMLError
YamlLoad(text) ==
    IF text = <<>> \/ text = <<Blk("null", NoNode)>> THEN [ok |-> TRUE, v |-> PyNone]
    ELSE IF text = <<Blk("nodes: []", NoNode)>> THEN [ok |-> TRUE, v |-> EmptyGraph]
    ELSE IF text = <<Blk("other: 1", NoNode)>> THEN [ok |-> TRUE, v |-> PyNoKey]
    ELSE IF text = <<Blk("nodes: 5", NoNode)>> THEN [ok |-> TRUE, v |-> PyIntNodes]
    ELSE IF text = <<Blk("nodes: abc", NoNode)>> THEN [ok |-> TRUE, v |-> PyStrNodes]
    ELSE IF /\ Len(text) > 1
            /\ text[1] = Blk("nodes:", NoNode)
            /\ \A i \in 2..Len(text) : text[i].t = "node"
         THEN [ok |-> TRUE, v |-> PyGraph([i \in 1..(Len(text) - 1) |-> text[i + 1].node])]
    ELSE [ok |-> FALSE, v |-> PyNone]

---------------------------------------------------------------------------
(* cli.py *)

\* HyperKernel.load_manifest: every exception of the try block yields the
\* empty graph; the print evaluates len(self.manifest.get('nodes', []))
\* after self.manifest is assigned.
KernelLoadManifest(file) ==
    IF file.st # "file" THEN EmptyGraph                  \* open() raises
    ELSE LET r == YamlLoad(file.text) IN
         IF ~r.ok THEN EmptyGraph                        \* safe_load raises
         ELSE IF r.v.kind \in {"none", "intnodes"} THEN EmptyGraph
                                         \* None.get / len(5) raise
         ELSE r.v

\* a loop that does not return at the first hit: the last hit wins
RECURSIVE MatchFromLast(_, _, _, _)
MatchFromLast(nodes, s, ni, ei) ==
    IF ni > Len(nodes) THEN <<0, 0>>
    ELSE IF ei > Len(nodes[ni].edges) THEN MatchFromLast(nodes, s, ni + 1, 1)
    ELSE LET later == MatchFromLast(nodes, s, ni, ei + 1) IN
         IF later # <<0, 0>> THEN later
         ELSE IF StrIn(Lower(nodes[ni].edges[ei].signal), s) THEN <<ni, ei>>
         ELSE <<0, 0>>

\* the loop of traverse, from node ni, edge ei on; <<0, 0>> is "fell through"
RECURSIVE MatchFrom(_, _, _, _)
MatchFrom(nodes, s, ni, ei) ==
    IF ni > Len(nodes) THEN <<0, 0>>
    ELSE IF ei > Len(nodes[ni].edges) THEN MatchFrom(nodes, s, ni + 1, 1)
    ELSE IF StrIn(Lower(nodes[ni].edges[ei].signal), s) THEN <<ni, ei>>
    ELSE MatchFrom(nodes, s, ni, ei + 1)

Match(nodes, sig) == MatchFrom(nodes, Lower(sig), 1, 1)

NoMatch == <<0, 0>>

MatchedOps == IF matched = NoMatch THEN <<>>
              ELSE manifest.nodes[matched[1]].edges[matched[2]].ops

\* os.path.dirname
Dirname(path) == SubSeq(path, 1, Len(path) - 1)

IsDir(f, d) == d = <<>> \/ d \in f.dirs
IsFile(f, p) == p \in DOMAIN f.files
Exists(f, p) == IsDir(f, p) \/ IsFile(f, p)

\* os.makedirs(d, exist_ok=True): [ok, fs].  makedirs("") raises
\* FileNotFoundError; a component that is a regular file raises.
RECURSIVE MakeDirs(_, _)
MakeDirs(f, d) ==
    IF d = <<>> THEN [ok |-> FALSE, fs |-> f]
    ELSE LET head == Dirname(d)
             up == IF head # <<>> /\ ~Exists(f, head)
                   THEN MakeDirs(f, head) ELSE [ok |-> TRUE, fs |-> f]
         IN IF ~up.ok THEN up
            ELSE IF IsDir(up.fs, d) THEN up
            ELSE IF IsFile(up.fs, d) \/ ~IsDir(up.fs, head) THEN [ok |-> FALSE, fs |-> up.fs]
            ELSE [ok |-> TRUE, fs |-> [up.fs EXCEPT !.dirs = @ \cup {d}]]

\* open(path, "w") then f.write(content): [ok, fs]
OpenWrite(f, path, content) ==
    IF IsDir(f, path) \/ ~IsDir(f, Dirname(path)) THEN [ok |-> FALSE, fs |-> f]
    ELSE [ok |-> TRUE, fs |-> [f EXCEPT !.files = (path :> content) @@ @]]

\* subprocess.run([cmd] + args): raises when the executable is missing; the
\* exit status is not looked at
ExecRaises(cmd) == cmd = "nosuch"

\* HyperKernel.run_op: [ok, fs]; ok = FALSE is an exception leaving run_op
RunOp(f, op) ==
    IF op.op = "write" THEN
        LET md == MakeDirs(f, Dirname(op.path)) IN
        IF ~md.ok THEN md ELSE OpenWrite(md.fs, op.path, op.content)
    ELSE IF op.op = "exec" THEN [ok |-> ~ExecRaises(op.cmd), fs |-> f]
    ELSE [ok |-> TRUE, fs |-> f]

\* a fallback that buffers the signal in a file
RouterFallbackBuffers(f) == [f EXCEPT !.files = (<<"buffer.txt">> :> "x") @@ @]

\* HyperKernel.router_fallback: two prints; the filesystem it leaves
RouterFallback(f) == f

\* __init__: self.load_manifest()
KernelLoad ==
    /\ kpc = "start"
    /\ manifest' = KernelLoadManifest(manifestFile)
    /\ kpc' = "loaded"
    /\ UNCHANGED <<manifestFile, fs, fs0, signal, matched, ran, fellBack>>
    /\ UNCHANGED ingestVars

\* traverse up to the call of execute_edge or router_fallback.  Iterating
\* the characters of a string-valued "nodes" raises at node.get.
Traverse ==
    /\ kpc = "loaded"
    /\ IF manifest.kind = "strnodes"
       THEN kpc' = "raised" /\ UNCHANGED <<matched, fellBack, fs>>
       ELSE LET m == Match(manifest.nodes, signal) IN
            IF m # NoMatch
            THEN /\ matched' = m
                 /\ kpc' = IF manifest.nodes[m[1]].edges[m[2]].ops = <<>>
                           THEN "done" ELSE "exec"
                 /\ UNCHANGED <<fellBack, fs>>
            ELSE /\ fellBack' = TRUE
                 /\ fs' = RouterFallback(fs)
                 /\ kpc' = "done"
                 /\ UNCHANGED matched
    /\ UNCHANGED <<manifestFile, fs0, signal, manifest, ran>>
    /\ UNCHANGED ingestVars

\* one iteration of execute_edge's loop: self.run_op(op).  An exception
\* leaves run_op, execute_edge and traverse: nothing catches it.
ExecuteOp ==
    /\ kpc = "exec"
    /\ LET op == MatchedOps[Len(ran) + 1]
           r == RunOp(fs, op)
       IN /\ ran' = Append(ran, op)
          /\ fs' = r.fs
          /\ kpc' = IF ~r.ok THEN "raised"
                    ELSE IF Len(ran) + 1 = Len(MatchedOps) THEN "done"
                    ELSE "exec"
    /\ UNCHANGED <<manifestFile, fs0, signal, manifest, matched, fellBack>>
    /\ UNCHANGED ingestVars

KernelNext == KernelLoad \/ Traverse \/ ExecuteOp

---------------------------------------------------------------------------
(* Inputs of the kernel *)

Signals == { <<>>, <<"a">>, <<"B", "A">>, <<"A", "b">>, <<"c", "a", "B">> }
EdgeSignals == { <<"A">>, <<"a", "b">>, <<"b">> }

Contents == {"hi", ""}
PathDir == <<"out", "a.txt">>      \* parent directory may not exist yet
PathDeep == <<"out", "sub", "a.txt">>
PathPlain == <<"a.txt">>           \* no directory component
PathUnderFile == <<"f", "a.txt">>  \* "f" is a regular file

Ops == {WriteOp(p, c) : p \in {PathDir, PathPlain, PathUnderFile}, c \in Contents}
         \cup {WriteOp(PathDeep, "hi")}
         \cup {ExecOp(c, <<>>) : c \in {"true", "false", "nosuch"}}

FsFresh == [dirs |-> {}, files |-> (<<"f">> :> "x")]
FsUsed == [dirs |-> {<<"out">>},
           files |-> (<<"f">> :> "x") @@ (PathDir :> "old") @@ (PathPlain :> "old")]

\* the ops of the edge with signal s, so that the ops run tell the edge
OpsFor(s) ==
    CASE s = <<"A">> -> <<ExecOp("true", <<>>)>>
      [] s = <<"a", "b">> -> <<WriteOp(PathDir, "hi")>>
      [] OTHER -> <<>>

\* graphs that vary the nodes and edges
MatchGraphs ==
    LET edges == {Edge(s, OpsFor(s)) : s \in EdgeSignals}
        nodes == {Node(1, <<>>, es) : es \in SeqsUpTo(edges, MaxEdges)}
    IN {PyGraph(ns) : ns \in SeqsUpTo(nodes, MaxNodes)}

\* graphs that vary the ops of one edge
OpGraphs ==
    {PyGraph(<<Node(1, <<>>, <<Edge(s, ops)>>)>>) :
        s \in {<<"A">>, <<"b">>}, ops \in SeqsUpTo(Ops, MaxOps)}

OddManifests ==
    {FileAbsent, FileUnreadable, FileOf(Garbage), FileOf(<<>>)}
      \cup {FileOf(YamlDump(v)) : v \in {PyNone, PyNoKey, PyIntNodes, PyStrNodes}}

IngestIdle ==
    /\ traceFile = [st |-> "absent", recs |-> <<>>]
    /\ scriptsDir = <<>>
    /\ pc = <<>>
    /\ graph = <<>>
    /\ seed = <<>>
    /\ writeOrder = <<>>
    /\ overlap = FALSE

InitKernel ==
    /\ \/ \E g \in MatchGraphs : manifestFile = FileOf(YamlDump(g)) /\ fs = FsFresh
       \/ \E g \in OpGraphs, f \in {FsFresh, FsUsed} :
             manifestFile = FileOf(YamlDump(g)) /\ fs = f
       \/ manifestFile \in OddManifests /\ fs = FsFresh
    /\ fs0 = fs
    /\ signal \in Signals
    /\ manifest = PyNone
    /\ kpc = "start"
    /\ matched = NoMatch
    /\ ran = <<>>
    /\ fellBack = FALSE
    /\ IngestIdle

SpecKernel == InitKernel /\ [][KernelNext]_vars

---------------------------------------------------------------------------
(* ingest_state.py *)

Ord == ("a" :> 97) @@ ("b" :> 98) @@ ("c" :> 99) @@ ("d" :> 100) @@ ("e" :> 101)
         @@ ("f" :> 102) @@ ("g" :> 103) @@ ("h" :> 104) @@ ("p" :> 112)
         @@ ("t" :> 116) @@ ("u" :> 117) @@ ("y" :> 121) @@ ("." :> 46)

HashBits == 16

RECURSIVE HashFrom(_, _)
HashFrom(h, s) ==
    IF s = <<>> THEN h
    ELSE HashFrom((h * 31 + Ord[Head(s)]) % (2 ^ HashBits), Tail(s))

\* hash(s) of a str.  CPython keys the string hash with a value drawn when
\* the process starts (PYTHONHASHSEED unset): within a process it is a
\* function of the string, and another process has another function.  The
\* keyed function is stood for by a keyed polynomial hash, signed.
PyHash(key, s) == HashFrom(key, s) - 2 ^ (HashBits - 1)

BandSize == 1000
MemBand == 2000
CapBand == 3000

\* int(hash(run_id)) % 1000 + 2000
MemId(key, run_id) == (PyHash(key, run_id) % BandSize) + MemBand

\* int(hash(name)) % 1000 + 3000
CapId(key, name) == (PyHash(key, name) % BandSize) + CapBand

RunIdCut == 6

RecallSignal(run_id) == <<"r", "e", "c", "a", "l", "l", " ">> \o Take(run_id, RunIdCut)

\* the Memory Node of a record (behavior and response are display text)
MemNode(key, run_id) ==
    Node(MemId(key, run_id),
         <<"M", "E", "M", "_">> \o Take(run_id, RunIdCut),
         <<Edge(RecallSignal(run_id), <<>>)>>)

ToUpper == ("t" :> "T") @@ ("u" :> "U") @@ ("p" :> "P") @@ ("y" :> "Y")

\* str.upper()
Upper(s) == [i \in 1..Len(s) |-> IF s[i] \in DOMAIN ToUpper THEN ToUpper[s[i]] ELSE s[i]]

\* s.replace(pat, "")
RECURSIVE Remove(_, _)
Remove(s, pat) ==
    IF Len(s) < Len(pat) THEN s
    ELSE IF SubSeq(s, 1, Len(pat)) = pat THEN Remove(SubSeq(s, Len(pat) + 1, Len(s)), pat)
    ELSE <<Head(s)>> \o Remove(Tail(s), pat)

ScriptPath(name) == <<"s", "c", "r", "i", "p", "t", "s", "/">> \o name

\* the Ability Node of a script
CapNode(key, name) ==
    Node(CapId(key, name),
         <<"T", "O", "O", "L", "_">> \o Remove(Upper(name), <<".", "P", "Y">>),
         <<Edge(<<"r", "u", "n", " ">> \o name,
                <<ExecOp("python3", <<ScriptPath(name)>>)>>)>>)

HasId(nodes, id) == \E i \in 1..Len(nodes) : nodes[i].id = id

\* load_manifest(): [ok, v]; ok = FALSE is an exception leaving it (open of
\* an unreadable file, yaml.safe_load of an unparsable one)
LoadManifest(file) ==
    IF file.st = "absent" THEN [ok |-> TRUE, v |-> EmptyGraph]
    ELSE IF file.st = "unreadable" THEN [ok |-> FALSE, v |-> PyNone]
    ELSE YamlLoad(file.text)

\* a loop body without the Dedupe test
TraceStepNoDedupe(g, key, run_id) ==
    IF g.kind # "graph" THEN g
    ELSE PyGraph(Append(g.nodes, MemNode(key, run_id)))

\* the body of ingest_trace's loop for one line.  When graph['nodes'] is
\* not a list of nodes the try block raises and the line is passed over.
TraceStep(g, key, run_id) ==
    IF g.kind # "graph" THEN g
    ELSE IF HasId(g.nodes, MemId(key, run_id)) THEN g
    ELSE PyGraph(Append(g.nodes, MemNode(key, run_id)))

RECURSIVE TraceLoop(_, _, _)
TraceLoop(g, key, recs) ==
    IF recs = <<>> THEN g
    ELSE TraceLoop(TraceStep(g, key, Head(recs)), key, Tail(recs))

\* ingest_trace(graph)
IngestTrace(g, key, file) ==
    IF file.st = "absent" THEN g ELSE TraceLoop(g, key, file.recs)

\* a loop body that puts the new node first
CapStepPrepend(r, key, name) ==
    IF ~r.ok THEN r
    ELSE IF r.v.kind # "graph" THEN [ok |-> FALSE, v |-> r.v]
    ELSE IF HasId(r.v.nodes, CapId(key, name)) THEN r
    ELSE [ok |-> TRUE, v |-> PyGraph(<<CapNode(key, name)>> \o r.v.nodes)]

\* the body of ingest_capabilities' loop for one script: [ok, v]; nothing
\* catches the exception of graph['nodes'] on a value that is no graph
CapStep(r, key, name) ==
    IF ~r.ok THEN r
    ELSE IF r.v.kind # "graph" THEN [ok |-> FALSE, v |-> r.v]
    ELSE IF HasId(r.v.nodes, CapId(key, name)) THEN r
    ELSE [ok |-> TRUE, v |-> PyGraph(Append(r.v.nodes, CapNode(key, name)))]

RECURSIVE CapLoop(_, _, _)
CapLoop(r, key, scripts) ==
    IF scripts = <<>> THEN r
    ELSE CapLoop(CapStep(r, key, Head(scripts)), key, Tail(scripts))

\* ingest_capabilities(graph)
IngestCapabilities(g, key, scripts) == CapLoop([ok |-> TRUE, v |-> g], key, scripts)

\* an open that keeps what the file holds (mode "r+")
TruncateKeep(file) == IF file.st = "file" THEN file ELSE FileOf(<<>>)

\* open(MANIFEST, "w"): the file is created or cut to nothing
Truncate(file) == FileOf(<<>>)

\* the write of yaml.dump's output through the handle, which stands at
\* offset 0: it replaces the start of what the file holds and leaves what
\* lies beyond its end.  Offsets are counted in blocks.
WriteAtStart(file, text) ==
    FileOf(text \o SubSeq(file.text, Len(text) + 1, Len(file.text)))

Seeds == 1..NumSeeds
Runs == 1..MaxRuns
Racers == {1, 2}

Resting(q) == pc[q] \in {"idle", "done", "load_raised", "scan_raised"}

\* process start and graph = load_manifest()
Load(p) ==
    /\ pc[p] = "idle"
    /\ \E k \in Seeds : seed' = [seed EXCEPT ![p] = k]
    /\ LET r == LoadManifest(manifestFile) IN
          /\ graph' = [graph EXCEPT ![p] = r.v]
          /\ pc' = [pc EXCEPT ![p] = IF r.ok THEN "loaded" ELSE "load_raised"]
    /\ UNCHANGED <<manifestFile, traceFile, scriptsDir, writeOrder, overlap>>
    /\ UNCHANGED kernelVars

\* ingest_trace(graph)
Trace(p) ==
    /\ pc[p] = "loaded"
    /\ graph' = [graph EXCEPT ![p] = IngestTrace(@, seed[p], traceFile)]
    /\ pc' = [pc EXCEPT ![p] = "traced"]
    /\ UNCHANGED <<manifestFile, traceFile, scriptsDir, seed, writeOrder, overlap>>
    /\ UNCHANGED kernelVars

\* ingest_capabilities(graph)
Scan(p) ==
    /\ pc[p] = "traced"
    /\ LET r == IngestCapabilities(graph[p], seed[p], scriptsDir) IN
          /\ graph' = [graph EXCEPT ![p] = r.v]
          /\ pc' = [pc EXCEPT ![p] = IF r.ok THEN "scanned" ELSE "scan_raised"]
    /\ UNCHANGED <<manifestFile, traceFile, scriptsDir, seed, writeOrder, overlap>>
    /\ UNCHANGED kernelVars

\* save_manifest(graph), nothing else touching the file meanwhile
Save(p) ==
    /\ pc[p] = "scanned"
    /\ manifestFile' = WriteAtStart(Truncate(manifestFile), YamlDump(graph[p]))
    /\ pc' = [pc EXCEPT ![p] = "done"]
    /\ writeOrder' = Append(writeOrder, p)
    /\ UNCHANGED <<traceFile, scriptsDir, graph, seed, overlap>>
    /\ UNCHANGED kernelVars

\* save_manifest(graph), first half: open(MANIFEST, "w")
SaveOpen(p) ==
    /\ pc[p] = "scanned"
    /\ manifestFile' = Truncate(manifestFile)
    /\ pc' = [pc EXCEPT ![p] = "opened"]
    /\ overlap' = (overlap \/ \E q \in Runs \ {p} : pc[q] = "opened")
    /\ UNCHANGED <<traceFile, scriptsDir, graph, seed, writeOrder>>
    /\ UNCHANGED kernelVars

\* save_manifest(graph), second half: yaml.dump(data, f) and the close
SaveWrite(p) ==
    /\ pc[p] = "opened"
    /\ manifestFile' = WriteAtStart(manifestFile, YamlDump(graph[p]))
    /\ pc' = [pc EXCEPT ![p] = "done"]
    /\ writeOrder' = Append(writeOrder, p)
    /\ UNCHANGED <<traceFile, scriptsDir, graph, seed, overlap>>
    /\ UNCHANGED kernelVars

\* the runs of SpecIngest: one at a time, in order
InTurn(p) ==
    /\ \A q \in Runs \ {p} : Resting(q)
    /\ \A q \in 1..(p - 1) : pc[q] # "idle"

IngestNext ==
    \E p \in Runs :
        \/ InTurn(p) /\ Load(p)
        \/ InTurn(p) /\ Trace(p)
        \/ InTurn(p) /\ Scan(p)
        \/ InTurn(p) /\ Save(p)

\* the runs of SpecRace: two, their steps interleaved
RaceNext ==
    \E p \in Racers : Load(p) \/ Trace(p) \/ Scan(p) \/ SaveOpen(p) \/ SaveWrite(p)

---------------------------------------------------------------------------
(* Inputs of the ingestor *)

RunA == <<"a", "b", "c", "d", "e", "f", "g">>
RunB == <<"a", "b", "c", "d", "e", "f", "h">>   \* RunA's first 6 characters
RunC == <<"y", "a">>
RunIds == {RunA, RunB, RunC}

ScriptT == <<"t", ".", "p", "y">>
ScriptU == <<"u", ".", "p", "y">>

\* a manifest written by hand: one node outside the ingestor's bands
HandGraph ==
    PyGraph(<<Node(1, <<"I", "N", "F", "R", "A">>,
                   <<Edge(<<"b">>, <<WriteOp(PathDir, "hi")>>)>>)>>)

KernelIdle ==
    /\ fs = FsFresh
    /\ fs0 = FsFresh
    /\ signal = <<>>
    /\ manifest = PyNone
    /\ kpc = "off"
    /\ matched = NoMatch
    /\ ran = <<>>
    /\ fellBack = FALSE

RunsIdle ==
    /\ pc = [p \in Runs |-> "idle"]
    /\ graph = [p \in Runs |-> PyNone]
    /\ seed = [p \in Runs |-> 0]
    /\ writeOrder = <<>>
    /\ overlap = FALSE

InitIngest ==
    /\ manifestFile \in {FileAbsent, FileUnreadable, FileOf(Garbage), FileOf(<<>>),
                         FileOf(YamlDump(HandGraph))}
    /\ traceFile \in {[st |-> "absent", recs |-> <<>>]}
                       \cup {[st |-> "file", recs |-> rs] : rs \in SeqsUpTo(RunIds, MaxLog)}
    /\ scriptsDir \in {<<>>, <<ScriptT>>, <<ScriptT, ScriptU>>, <<ScriptU, ScriptT>>}
    /\ RunsIdle
    /\ KernelIdle

InitRace ==
    /\ manifestFile \in {FileAbsent, FileOf(YamlDump(HandGraph))}
    /\ traceFile \in {[st |-> "file", recs |-> rs] : rs \in SeqsUpTo(RunIds, MaxLog)}
    /\ scriptsDir \in {<<>>, <<ScriptT>>}
    /\ RunsIdle
    /\ KernelIdle

SpecIngest == InitIngest /\ [][IngestNext]_vars

SpecRace == InitRace /\ [][RaceNext]_vars

---------------------------------------------------------------------------
(* Claims about cli.py, under SpecKernel *)

\* x occurs in s at some position, character by character
OccursIn(x, s) ==
    \E i \in 0..(Len(s) - Len(x)) : \A k \in 1..Len(x) : s[i + k] = x[k]

\* edge ei of node ni passes the substring test for the signal
Hit(ni, ei) ==
    OccursIn(Lower(manifest.nodes[ni].edges[ei].signal), Lower(signal))

Pairs == UNION {{<<ni, ei>> : ei \in 1..Len(manifest.nodes[ni].edges)} :
                   ni \in 1..Len(manifest.nodes)}

Before(p, q) == p[1] < q[1] \/ (p[1] = q[1] /\ p[2] < q[2])

Traversed == kpc \in {"exec", "done", "raised"} /\ manifest.kind # "strnodes"

\* C1: traverse selects the first (node, edge) pair, in node order then edge
\* order, whose lowercased signal is a substring of the lowercased input, and
\* runs the ops of that pair only; it falls back iff no pair passes the test.
C1_FirstMatch ==
    Traversed =>
        /\ matched # NoMatch =>
              /\ matched \in Pairs
              /\ Hit(matched[1], matched[2])
              /\ \A p \in Pairs : Before(p, matched) => ~Hit(p[1], p[2])
              /\ IsPrefix(ran, manifest.nodes[matched[1]].edges[matched[2]].ops)
              /\ kpc = "done" => ran = manifest.nodes[matched[1]].edges[matched[2]].ops
        /\ fellBack <=> ~\E p \in Pairs : Hit(p[1], p[2])
        /\ fellBack <=> matched = NoMatch

\* a later pair passes the test too, with other ops, and the first one ran
C1_Witness ==
    /\ kpc = "done"
    /\ matched # NoMatch
    /\ ran # <<>>
    /\ \E p \in Pairs : /\ Before(matched, p)
                        /\ Hit(p[1], p[2])
                        /\ manifest.nodes[p[1]].edges[p[2]].ops # ran

\* C2 (as claimed): with an edge matched, no op's failure leaves the
\* dispatch, and every op of the edge is run, in listed order.
C2_BestEffort ==
    matched # NoMatch =>
        /\ kpc # "raised"
        /\ kpc = "done" => ran = MatchedOps

\* C3: router_fallback is called exactly when no edge matches, never with
\* execute_edge; a dispatch that falls back runs no op and leaves the graph
\* and the filesystem as they were.
C3_FallbackOnly ==
    /\ Traversed => (fellBack <=> ~\E p \in Pairs : Hit(p[1], p[2]))
    /\ fellBack =>
          /\ matched = NoMatch
          /\ ran = <<>>
          /\ fs = fs0
          /\ manifest = KernelLoadManifest(manifestFile)
          /\ kpc = "done"
    /\ matched # NoMatch => ~fellBack

\* fell back although the graph has edges with ops
C3_Witness ==
    /\ fellBack
    /\ kpc = "done"
    /\ \E p \in Pairs : manifest.nodes[p[1]].edges[p[2]].ops # <<>>

LastOp == ran[Len(ran)]

\* C5 (as claimed): after run_op has executed a write, the file exists and
\* holds exactly the content.  Stated for the paths whose parent directory
\* exists or can be created: no directory component, or "out/...".
C5_WriteLands ==
    (ran # <<>> /\ LastOp.op = "write" /\ LastOp.path \in {PathPlain, PathDir, PathDeep}) =>
        /\ IsFile(fs, LastOp.path)
        /\ fs.files[LastOp.path] = LastOp.content

---------------------------------------------------------------------------
(* Claims about ingest_state.py, under SpecIngest *)

\* the node list the manifest file holds, if it holds a graph
FileNodes(file) ==
    IF file.st = "file" /\ YamlLoad(file.text).ok
    THEN YamlLoad(file.text).v.nodes ELSE <<>>

HoldsGraph(file) ==
    file.st = "file" /\ YamlLoad(file.text).ok /\ YamlLoad(file.text).v.kind = "graph"

\* C4 (as claimed): load_manifest never fails its caller: whatever the
\* manifest storage holds that is not a graph, the kernel's and the
\* ingestor's load_manifest yield the empty graph and raise nothing.
C4_LoadNeverFails ==
    /\ \A p \in Runs :
          /\ pc[p] # "load_raised"
          /\ (pc[p] = "loaded" /\ ~HoldsGraph(manifestFile)) => graph[p] = EmptyGraph
    /\ (kpc = "loaded" /\ ~HoldsGraph(manifestFile)) => manifest = EmptyGraph

\* a run before p has saved the manifest, so p loaded what that run saved
LaterRun(p) == \E q \in 1..(p - 1) : pc[q] = "done"

\* C6 (as claimed): ingest_trace over the unchanged log adds no node the
\* second time, be it in the same process or in a later run that loads the
\* manifest the first run saved.
C6_TraceIdempotent ==
    \A p \in Runs :
        pc[p] = "traced" =>
            /\ IngestTrace(graph[p], seed[p], traceFile) = graph[p]
            /\ LaterRun(p) => Len(graph[p].nodes) = Len(FileNodes(manifestFile))

CapIds == CapBand..(CapBand + BandSize - 1)

CapCount(nodes) == Cardinality({i \in 1..Len(nodes) : nodes[i].id \in CapIds})

DistinctCapIds(key) ==
    \A i, j \in 1..Len(scriptsDir) :
        i # j => CapId(key, scriptsDir[i]) # CapId(key, scriptsDir[j])

\* C7 (as claimed): over N scripts with pairwise distinct derived IDs the
\* first ingest_capabilities appends exactly N capability nodes, and a
\* repeated one appends none, in the same process or in a later run.
C7_CapabilitiesOnce ==
    \A p \in Runs :
        (pc[p] = "scanned" /\ DistinctCapIds(seed[p])) =>
            /\ ~LaterRun(p) => CapCount(graph[p].nodes) = Len(scriptsDir)
            /\ IngestCapabilities(graph[p], seed[p], scriptsDir).v = graph[p]
            /\ LaterRun(p) => CapCount(graph[p].nodes) = CapCount(FileNodes(manifestFile))

\* the run_ids that two or more records of the log carry
Repeated ==
    {r \in RunIds : \E i, j \in 1..Len(traceFile.recs) :
                       i # j /\ traceFile.recs[i] = r /\ traceFile.recs[j] = r}

MemIds == MemBand..(MemBand + BandSize - 1)

\* the memory nodes whose edge signal is "recall " + run_id[:6]
Recalling(nodes, r) ==
    {i \in 1..Len(nodes) :
        /\ nodes[i].id \in MemIds
        /\ \E e \in 1..Len(nodes[i].edges) : nodes[i].edges[e].signal = RecallSignal(r)}

WithId(nodes, id) == {i \in 1..Len(nodes) : nodes[i].id = id}

Ingested(p) == pc[p] = "traced" /\ graph[p].kind = "graph" /\ traceFile.st = "file"

\* C8 (as claimed): after ingest_trace, exactly one memory node references
\* a run_id that two or more records carry.
C8_OneNodeRecalls ==
    \A p \in Runs : Ingested(p) =>
        \A r \in Repeated : Cardinality(Recalling(graph[p].nodes, r)) = 1

\* C8 (amended): after ingest_trace, exactly one node carries the ID derived
\* from a run_id that two or more records carry.
C8_OneNodePerDerivedId ==
    \A p \in Runs : Ingested(p) =>
        \A r \in Repeated : Cardinality(WithId(graph[p].nodes, MemId(seed[p], r))) = 1

\* a repeated run_id whose ID an earlier record of another run_id had taken:
\* one node carries the ID and none recalls the run_id
C8_Witness ==
    \E p \in Runs : Ingested(p) /\
        \E r \in Repeated :
            /\ Cardinality(WithId(graph[p].nodes, MemId(seed[p], r))) = 1
            /\ Recalling(graph[p].nodes, r) = {}

ManifestWritten == \E p \in Runs : pc[p] = "scanned" /\ pc'[p] = "done"

\* C9: across the ingestor's steps the node list before a step is a prefix
\* of the node list after it, in memory and in the manifest file, and the
\* file changes in save_manifest only.
C9_AppendOnly ==
    [][/\ \A p \in Runs : IsPrefix(graph[p].nodes, graph'[p].nodes)
       /\ IsPrefix(FileNodes(manifestFile), FileNodes(manifestFile'))
       /\ manifestFile' # manifestFile => ManifestWritten]_vars

\* the second run has saved more nodes than the first, which had added some
\* to the hand-written one
C9_Witness ==
    /\ pc[1] = "done" /\ pc[2] = "done"
    /\ Len(graph[1].nodes) > 1
    /\ graph[1].nodes[1].id = 1
    /\ Len(FileNodes(manifestFile)) > Len(graph[1].nodes)

---------------------------------------------------------------------------
(* Claims about two concurrent runs of ingest_state.py, under SpecRace *)

Finished == \A p \in Racers : Resting(p)

LastWriter == writeOrder[Len(writeOrder)]

\* C10 (as claimed): in every interleaving the manifest finally holds
\* exactly the graph of the run that saved last.
C10_LastWriterWins ==
    (Finished /\ writeOrder # <<>>) =>
        manifestFile = FileOf(YamlDump(graph[LastWriter]))

\* C10 (amended): the same, for the interleavings in which neither run
\* opens the manifest for writing while the other has it open for writing.
C10_LastWriterWinsApart ==
    (Finished /\ writeOrder # <<>> /\ ~overlap) =>
        manifestFile = FileOf(YamlDump(graph[LastWriter]))

\* both runs loaded before either saved, the saves did not overlap, and a
\* node the first saver appended is not in the manifest
C10_Witness ==
    /\ Finished /\ Len(writeOrder) = 2 /\ ~overlap
    /\ graph[writeOrder[1]].kind = "graph" /\ graph[writeOrder[2]].kind = "graph"
    /\ manifestFile = FileOf(YamlDump(graph[LastWriter]))
    /\ \E i \in 1..Len(graph[writeOrder[1]].nodes) :
          /\ graph[writeOrder[1]].nodes[i].id \in MemIds \cup CapIds
          /\ \A j \in 1..Len(FileNodes(manifestFile)) :
                FileNodes(manifestFile)[j] # graph[writeOrder[1]].nodes[i]

===========================================================================
